---- MODULE Spec2Model ----
(***************************************************************************)
(* Model of the reconciliation engine of the X/Twitter monitor             *)
(* (src/src/x_monitor/state.py, StateManager).  Strings are sequences of   *)
(* one-character strings, so that joining, digit tests and int() are       *)
(* computed as the code computes them.  Timestamps are natural numbers     *)
(* (seconds of the wall clock); 0 stands for a missing (None) timestamp.   *)
(***************************************************************************)
EXTENDS Integers, Sequences, FiniteSets, TLC

VARIABLES
    state,          \* StateManager._state: ordered mapping id -> record (insertion order)
    loaded,         \* StateManager._loaded
    file,           \* content of config.state_file
    now,            \* wall clock, truncated to seconds
    batch,          \* argument of the last process_tweets call
    notifications,  \* list returned by the last process_tweets call
    repeated,       \* history: the last call had the batch of the call before it
    revived,        \* history: ids of the last batch whose record was deleted before it
    absences,       \* history: per id, consecutive calls whose batch lacked it (capped)
    prevAbsences,   \* history: absences as they were before the last call
    deletions,      \* history: per id, 'deleted' notifications emitted so far (capped)
    seen,           \* history: per id, the second and the item of its last appearance in a batch
    shadow,         \* the notifications of the same call on the batch in another order
    runs,           \* the processes of two runs that overlap on the state file
    store,          \* the files a resource watcher keeps between its runs
    bases,          \* the strings content_hash digested for the items of the batch
    raw,            \* the "items" array of the feed handed to parse_feed
    entry,          \* the program of a run: x_monitor.main or x_monitor_bot
    pc,             \* position of the run
    log,            \* effects of the run on its collaborators, in order
    exit            \* completion signal of the last run that ended

hist == <<repeated, revived, absences, prevAbsences, deletions, seen, shadow>>

ext == <<bases, raw, entry, pc, log, exit, runs, store>>

vars == <<state, loaded, file, now, batch, notifications, hist, ext>>

(***************************************************************************)
(* Bounds                                                                  *)
(***************************************************************************)
MaxBatch == 2       \* longest batch handed to process_tweets
MaxNow == 2         \* last second of the wall clock
MaxAbsences == 4    \* cap of the history counter of consecutive absences
MaxDeletions == 2   \* cap of the history counter of 'deleted' notifications
MaxFeed == 3        \* longest "items" array handed to parse_feed
MaxRetries == 4     \* largest 'retries' argument of a fetch
MaxMarkup == 2      \* most media elements in the markup of an item

(***************************************************************************)
(* Strings                                                                 *)
(***************************************************************************)
None == <<"<None>">>

Digits == {"0", "1", "2", "3", "4", "5", "6", "7", "8", "9"}

DigitVal(c) ==
    CASE c = "0" -> 0 [] c = "1" -> 1 [] c = "2" -> 2 [] c = "3" -> 3
      [] c = "4" -> 4 [] c = "5" -> 5 [] c = "6" -> 6 [] c = "7" -> 7
      [] c = "8" -> 8 [] c = "9" -> 9

\* str.isdigit(): non-empty and every character a digit
isdigit(s) == Len(s) > 0 /\ \A i \in 1..Len(s) : s[i] \in Digits

\* int(s) of a digit string
RECURSIVE int(_)
int(s) ==
    IF Len(s) = 0 THEN 0
    ELSE 10 * int(SubSeq(s, 1, Len(s) - 1)) + DigitVal(s[Len(s)])

\* sep.join(parts)
RECURSIVE join(_, _)
join(sep, parts) ==
    IF Len(parts) = 0 THEN <<>>
    ELSE IF Len(parts) = 1 THEN parts[1]
    ELSE parts[1] \o sep \o join(sep, Tail(parts))

\* hashlib.sha256(...).hexdigest(), idealised as a collision-free digest
sha256(base) == <<"sha256", base>>

(***************************************************************************)
(* Items                                                                   *)
(***************************************************************************)
Tweet(id, text, url, images, videos, timestamp, is_retweet) ==
    [id |-> id, text |-> text, url |-> url, images |-> images,
     videos |-> videos, timestamp |-> timestamp, is_retweet |-> is_retweet,
     quote_text |-> None, quote_author |-> None,
     author_name |-> None, author_avatar |-> None]

\* the string content_hash digests
base(tweet) ==
    join(<<"|", "|">>,
         <<tweet.text, join(<<"|">>, tweet.images), join(<<"|">>, tweet.videos)>>)

\* a fingerprint that digests the link as well
content_hashWithUrl(tweet) == sha256(join(<<"|", "|">>, <<base(tweet), tweet.url>>))

content_hash(tweet) == sha256(base(tweet))

hello == <<"h", "e", "l", "l", "o">>
helloBang == <<"h", "e", "l", "l", "o", "!">>
urlOf(id) == <<"/">> \o id
mirrorOf(id) == <<"/", "m">> \o urlOf(id)
pic == <<"p">>

\* post 2 before and after an edit; post 10 served with two links, dates and
\* retweet marks
FeedTweets ==
    { Tweet(<<"2">>, hello, urlOf(<<"2">>), <<>>, <<>>, 1, FALSE),
      Tweet(<<"2">>, helloBang, urlOf(<<"2">>), <<>>, <<>>, 1, FALSE),
      Tweet(<<"1", "0">>, hello, urlOf(<<"1", "0">>), <<pic>>, <<>>, 0, TRUE),
      Tweet(<<"1", "0">>, hello, mirrorOf(<<"1", "0">>), <<pic>>, <<>>, 2, FALSE) }

\* items with a numeric, a longer numeric and a non-numeric id
SortTweets ==
    { Tweet(<<"2">>, hello, urlOf(<<"2">>), <<>>, <<>>, 1, FALSE),
      Tweet(<<"1", "0">>, hello, urlOf(<<"1", "0">>), <<pic>>, <<>>, 0, TRUE),
      Tweet(<<"a">>, hello, urlOf(<<"a">>), <<>>, <<>>, 0, FALSE) }

Ids == { t.id : t \in FeedTweets \cup SortTweets }

SeqsUpTo(S, n) == UNION { [1..k -> S] : k \in 0..n }

Batches == SeqsUpTo(FeedTweets, MaxBatch)

SortBatches == SeqsUpTo(SortTweets, MaxBatch)

BatchIds(tweets) == { tweets[i].id : i \in 1..Len(tweets) }

\* number of notifications of an id with a status
Count(ns, id, status) ==
    Cardinality({ k \in 1..Len(ns) : ns[k][1].id = id /\ ns[k][2] = status })

\* number of notifications of an id
CountId(ns, id) == Cardinality({ k \in 1..Len(ns) : ns[k][1].id = id })

\* number of occurrences of a notification
CountPair(ns, tweet, status) ==
    Cardinality({ k \in 1..Len(ns) : ns[k] = <<tweet, status>> })

\* number of batch items with an id
Occurrences(tweets, id) == Cardinality({ i \in 1..Len(tweets) : tweets[i].id = id })

DistinctIds(tweets) == \A id \in BatchIds(tweets) : Occurrences(tweets, id) = 1

\* the batches in which every id occurs once
DistinctBatches == { tweets \in Batches : DistinctIds(tweets) }

\* an item with its quote and author fields filled in
WithQuote(tweet, quote_text, quote_author, author_name, author_avatar) ==
    [tweet EXCEPT !.quote_text = quote_text, !.quote_author = quote_author,
                  !.author_name = author_name, !.author_avatar = author_avatar]

\* the (text, images, videos) of an item or of a record
Triple(x) == <<x.text, x.images, x.videos>>

\* post 10 served plain and with another link, date, retweet mark, quote and
\* author; edited; and post 2
FieldTweets ==
    { Tweet(<<"1", "0">>, hello, urlOf(<<"1", "0">>), <<pic>>, <<>>, 0, TRUE),
      WithQuote(Tweet(<<"1", "0">>, hello, mirrorOf(<<"1", "0">>), <<pic>>, <<>>, 2, FALSE),
                <<"q">>, <<"a">>, <<"n">>, <<"v">>),
      Tweet(<<"1", "0">>, helloBang, urlOf(<<"1", "0">>), <<pic>>, <<>>, 0, TRUE),
      Tweet(<<"2">>, hello, urlOf(<<"2">>), <<>>, <<>>, 1, FALSE) }

FieldBatches == SeqsUpTo(FieldTweets, MaxBatch)

(***************************************************************************)
(* The feed normalizers.  A raw item is given by its url and id fields (or *)
(* link and guid elements) and by the text, media, date and repost mark    *)
(* its markup yields; a field that is absent or null is None.              *)
(***************************************************************************)
StatusPrefix == <<"/", "s", "t", "a", "t", "u", "s", "/">>

\* the positions at which r"/status/(\d+)" matches
StatusMatches(url) ==
    { p \in 1..Len(url) :
        /\ p + Len(StatusPrefix) <= Len(url)
        /\ SubSeq(url, p, p + Len(StatusPrefix) - 1) = StatusPrefix
        /\ url[p + Len(StatusPrefix)] \in Digits }

\* the digits from position p on, as many as there are
RECURSIVE DigitRun(_, _)
DigitRun(url, p) ==
    IF p > Len(url) \/ url[p] \notin Digits THEN <<>>
    ELSE <<url[p]>> \o DigitRun(url, p + 1)

\* an id taken from any status segment, digits or not
extract_tweet_idLoose(url) ==
    LET ps == { p \in 1..Len(url) :
                  /\ p + Len(StatusPrefix) <= Len(url)
                  /\ SubSeq(url, p, p + Len(StatusPrefix) - 1) = StatusPrefix }
    IN  IF url = None \/ ps = {} THEN None
        ELSE SubSeq(url, (CHOOSE p \in ps : \A q \in ps : p <= q) + Len(StatusPrefix),
                    Len(url))

\* re.search(r"/status/(\d+)", url).group(1) of the leftmost match, or None
extract_tweet_id(url) ==
    IF url = None \/ StatusMatches(url) = {} THEN None
    ELSE DigitRun(url, (CHOOSE p \in StatusMatches(url) :
                           \A q \in StatusMatches(url) : p <= q) + Len(StatusPrefix))

\* x or y
Or(x, y) == IF x # None /\ x # <<>> THEN x ELSE y

\* str(item.get("id", ""))
str(x) == IF x = None THEN <<"N", "o", "n", "e">> ELSE x

RawItem(url, id, text, images, videos, date_published, repost) ==
    [url |-> url, id |-> id, text |-> text, images |-> images, videos |-> videos,
     date_published |-> date_published, repost |-> repost]

\* the None a normalizer returns for an item it skips
NoItem == [none |-> TRUE]

\* an id that no batch has had yet
Unseen == [at |-> 0, item |-> NoItem]

\* feed._parse_item: None when no id can be extracted
parse_item(item) ==
    LET url == Or(item.url, Or(item.id, <<>>))
        tweet_id == Or(extract_tweet_id(url), extract_tweet_id(str(item.id)))
    IN  IF tweet_id = None THEN NoItem
        ELSE Tweet(tweet_id, item.text, url, item.images, item.videos,
                   item.date_published, item.repost)

\* feed.parse_feed: the items that parse, in feed order
RECURSIVE parse_feed(_)
parse_feed(items) ==
    IF Len(items) = 0 THEN <<>>
    ELSE LET tweet == parse_item(items[1])
         IN  IF tweet # NoItem THEN <<tweet>> \o parse_feed(Tail(items))
             ELSE parse_feed(Tail(items))

(***************************************************************************)
(* The ordered mapping self._state: a sequence of [id, rec] entries        *)
(***************************************************************************)
NoRec == [none |-> TRUE]

HasKey(st, id) == \E i \in 1..Len(st) : st[i].id = id

IndexOf(st, id) == CHOOSE i \in 1..Len(st) : st[i].id = id

\* dict.get(id)
Get(st, id) == IF HasKey(st, id) THEN st[IndexOf(st, id)].rec ELSE NoRec

\* dict[id] = rec : a new key goes last, an existing key keeps its place
Put(st, id, rec) ==
    IF HasKey(st, id)
    THEN [st EXCEPT ![IndexOf(st, id)] = [id |-> id, rec |-> rec]]
    ELSE Append(st, [id |-> id, rec |-> rec])

Keys(st) == { st[i].id : i \in 1..Len(st) }

\* the state file: absent, unreadable, holding text that is not JSON, holding
\* JSON that is no object, or holding the JSON of a mapping
NoFile == [kind |-> "absent"]

Unreadable == [kind |-> "unreadable"]

NotJson == [kind |-> "text"]

JsonArrayFile == [kind |-> "array"]

\* json.dumps(st) written to the file
JsonOf(st) == [kind |-> "object", st |-> st]

\* json.loads of a JSON array: a value that is no mapping
JsonArray == <<[array |-> TRUE]>>

\* a value of the mapping that is no record, as in {"2": 5}
BadRec == [scalar |-> TRUE]

\* StateManager.load: a missing file, a failed read and a failed json.loads give
\* the empty mapping; any JSON value is taken as it is
load(f) ==
    IF f.kind = "object" THEN f.st
    ELSE IF f.kind = "array" THEN JsonArray
    ELSE <<>>

\* self._state supports .get and .items()
IsDict(st) == st # JsonArray

\* self._state.get / rec.get raises AttributeError somewhere in process_tweets:
\* every key is visited by one of the two loops
Raises(st) == ~IsDict(st) \/ \E i \in 1..Len(st) : st[i].rec = BadRec

(***************************************************************************)
(* StateManager.process_tweets                                             *)
(***************************************************************************)
\* a deleted record taken for a missing one
IsMissingOrDeleted(rec) == rec = NoRec \/ rec.deleted

\* rec is None
IsMissing(rec) == rec = NoRec

\* a first_seen that is not stamped
NewRecordUnstamped(tweet, h, now_iso) ==
    [hash |-> h, text |-> tweet.text, images |-> tweet.images,
     videos |-> tweet.videos, url |-> tweet.url,
     first_seen |-> 0, last_seen |-> now_iso,
     missing_streak |-> 0, deleted |-> FALSE]

\* the record of an id seen for the first time
NewRecord(tweet, h, now_iso) ==
    [hash |-> h, text |-> tweet.text, images |-> tweet.images,
     videos |-> tweet.videos, url |-> tweet.url,
     first_seen |-> now_iso, last_seen |-> now_iso,
     missing_streak |-> 0, deleted |-> FALSE]

\* an update that keeps the old fingerprint
UpdateRecordKeepHash(rec, tweet, h, now_iso) ==
    [rec EXCEPT !.text = tweet.text,
                !.images = tweet.images, !.videos = tweet.videos,
                !.url = tweet.url, !.last_seen = now_iso,
                !.missing_streak = 0, !.deleted = FALSE]

\* an update that keeps the missing streak
UpdateRecordKeepStreak(rec, tweet, h, now_iso) ==
    [rec EXCEPT !.hash = h, !.text = tweet.text,
                !.images = tweet.images, !.videos = tweet.videos,
                !.url = tweet.url, !.last_seen = now_iso,
                !.deleted = FALSE]

\* an update that keeps the old content snapshot
UpdateRecordKeepSnapshot(rec, tweet, h, now_iso) ==
    [rec EXCEPT !.hash = h, !.last_seen = now_iso,
                !.missing_streak = 0, !.deleted = FALSE]

\* dict.update of the record of an id seen again
UpdateRecord(rec, tweet, h, now_iso) ==
    [rec EXCEPT !.hash = h, !.text = tweet.text,
                !.images = tweet.images, !.videos = tweet.videos,
                !.url = tweet.url, !.last_seen = now_iso,
                !.missing_streak = 0, !.deleted = FALSE]

\* an edit test that compares the stored link as well
IsEditedOrMoved(rec, tweet, h) == rec.hash # h \/ rec.url # tweet.url

\* rec.get("hash") != h
IsEdited(rec, tweet, h) == rec.hash # h

\* one iteration of the loop over the batch
HandleTweet(acc, tweet, now_iso) ==
    LET h == content_hash(tweet)
        rec == Get(acc.st, tweet.id)
        cur == acc.current_ids \cup {tweet.id}
    IN  IF IsMissing(rec)
        THEN [st |-> Put(acc.st, tweet.id, NewRecord(tweet, h, now_iso)),
              notifications |-> Append(acc.notifications, <<tweet, "new">>),
              current_ids |-> cur]
        ELSE [st |-> Put(acc.st, tweet.id, UpdateRecord(rec, tweet, h, now_iso)),
              notifications |-> IF IsEdited(rec, tweet, h)
                                THEN Append(acc.notifications, <<tweet, "edited">>)
                                ELSE acc.notifications,
              current_ids |-> cur]

RECURSIVE ScanTweets(_, _, _, _)
ScanTweets(tweets, i, acc, now_iso) ==
    IF i > Len(tweets) THEN acc
    ELSE ScanTweets(tweets, i + 1, HandleTweet(acc, tweets[i], now_iso), now_iso)

\* a threshold of two absences
ReachedThresholdTwo(streak) == streak >= 2

\* rec["missing_streak"] >= 3
ReachedThreshold(streak) == streak >= 3

\* one iteration of the loop over the records
HandleRecord(acc, i, now_iso) ==
    LET tid == acc.st[i].id
        rec == acc.st[i].rec
        streak == rec.missing_streak + 1
    IN  IF tid \in acc.current_ids \/ rec.deleted THEN acc
        ELSE IF ReachedThreshold(streak)
        THEN [acc EXCEPT
                !.st = Put(acc.st, tid, [rec EXCEPT !.missing_streak = streak,
                                                    !.deleted = TRUE,
                                                    !.last_seen = now_iso]),
                !.notifications =
                    Append(acc.notifications,
                           <<Tweet(tid, rec.text, rec.url, rec.images, rec.videos,
                                   now_iso, FALSE), "deleted">>)]
        ELSE [acc EXCEPT
                !.st = Put(acc.st, tid, [rec EXCEPT !.missing_streak = streak])]

RECURSIVE ScanRecords(_, _, _)
ScanRecords(i, acc, now_iso) ==
    IF i > Len(acc.st) THEN acc
    ELSE ScanRecords(i + 1, HandleRecord(acc, i, now_iso), now_iso)

\* key of notifications.sort
SortKey(n) == IF isdigit(n[1].id) THEN int(n[1].id) ELSE 0

\* list.sort(key=...) is stable: an element goes after the elements whose key is not larger
RECURSIVE InsertSorted(_, _)
InsertSorted(sorted, n) ==
    IF Len(sorted) = 0 THEN <<n>>
    ELSE IF SortKey(sorted[Len(sorted)]) <= SortKey(n) THEN Append(sorted, n)
    ELSE Append(InsertSorted(SubSeq(sorted, 1, Len(sorted) - 1), n), sorted[Len(sorted)])

\* a list left in the order of its appends
Unsorted(ns) == ns

RECURSIVE SortNotifications(_)
SortNotifications(ns) ==
    IF Len(ns) = 0 THEN <<>>
    ELSE InsertSorted(SortNotifications(SubSeq(ns, 1, Len(ns) - 1)), ns[Len(ns)])

\* a reconciliation that looks for vanished records before it has read the batch
process_tweetsRecordsFirst(st, tweets, now_iso) ==
    LET acc1 == ScanRecords(1, [st |-> st, notifications |-> <<>>, current_ids |-> {}],
                            now_iso)
        acc2 == ScanTweets(tweets, 1, acc1, now_iso)
    IN  [notifications |-> SortNotifications(acc2.notifications), st |-> acc2.st]

\* the pair (notifications, self._state) process_tweets returns
process_tweets(st, tweets, now_iso) ==
    LET acc1 == ScanTweets(tweets, 1,
                           [st |-> st, notifications |-> <<>>, current_ids |-> {}],
                           now_iso)
        acc2 == ScanRecords(1, acc1, now_iso)
    IN  [notifications |-> SortNotifications(acc2.notifications), st |-> acc2.st]

Cap(n, max) == IF n > max THEN max ELSE n

(***************************************************************************)
(* Actions                                                                 *)
(***************************************************************************)
Init ==
    /\ state = <<>>
    /\ loaded = FALSE
    /\ file = NoFile
    /\ now = 1
    /\ batch = <<>>
    /\ notifications = <<>>
    /\ repeated = FALSE
    /\ revived = {}
    /\ absences = [id \in Ids |-> 0]
    /\ prevAbsences = [id \in Ids |-> 0]
    /\ deletions = [id \in Ids |-> 0]
    /\ seen = [id \in Ids |-> Unseen]
    /\ shadow = <<>>
    /\ runs = <<>>
    /\ store = <<>>
    /\ bases = <<>>
    /\ raw = <<>>
    /\ entry = "main"
    /\ pc = <<"idle", 0>>
    /\ log = <<>>
    /\ exit = -1

\* the mapping a call works on
PreState == IF loaded THEN state ELSE load(file)

\* one call of process_tweets on the manager, at the current second
ProcessTweets(tweets) ==
    LET res == process_tweets(PreState, tweets, now)
    IN  /\ state' = res.st
        /\ loaded' = TRUE
        /\ notifications' = res.notifications
        /\ batch' = tweets
        /\ UNCHANGED <<file, now, ext>>

\* what the call was given is recorded
RecordCall(tweets) ==
    /\ repeated' = (loaded /\ tweets = batch)
    /\ revived' = { id \in BatchIds(tweets) :
                      HasKey(PreState, id) /\ Get(PreState, id).deleted }
    /\ UNCHANGED <<absences, prevAbsences, deletions, seen, shadow>>

\* the absences of each id are counted
RecordAbsences(tweets) ==
    /\ prevAbsences' = absences
    /\ absences' = [id \in Ids |->
                      IF id \in BatchIds(tweets) THEN 0
                      ELSE Cap(absences[id] + 1, MaxAbsences)]
    /\ UNCHANGED <<repeated, revived, deletions, seen, shadow>>

\* the 'deleted' notifications of the call are counted
Tally ==
    /\ deletions' = [id \in Ids |->
                       Cap(deletions[id] + Count(notifications', id, "deleted"),
                           MaxDeletions)]
    /\ UNCHANGED <<repeated, revived, absences, prevAbsences, seen, shadow>>

\* the last item of a batch with an id
RECURSIVE LastWith(_, _)
LastWith(tweets, id) ==
    IF Len(tweets) = 0 THEN NoItem
    ELSE IF tweets[Len(tweets)].id = id THEN tweets[Len(tweets)]
    ELSE LastWith(SubSeq(tweets, 1, Len(tweets) - 1), id)

\* the appearance of each id in the batch is recorded
RecordSeen(tweets) ==
    /\ seen' = [id \in Ids |->
                  IF id \in BatchIds(tweets)
                  THEN [seen[id] EXCEPT !.at = now, !.item = LastWith(tweets, id)]
                  ELSE seen[id]]
    /\ UNCHANGED <<repeated, revived, absences, prevAbsences, deletions, shadow>>

\* the wall clock advances between two calls
Tick ==
    /\ now < MaxNow
    /\ now' = now + 1
    /\ UNCHANGED <<state, loaded, file, batch, notifications, hist, ext>>

\* polls of a feed in which every id occurs once, the clock running
Reconcile ==
    \E tweets \in DistinctBatches : ProcessTweets(tweets) /\ UNCHANGED hist

Next == Reconcile \/ Tick

Spec == Init /\ [][Next]_vars

\* successive calls on any batch, duplicated ids included
ReconcileAny ==
    \E tweets \in Batches : ProcessTweets(tweets) /\ RecordCall(tweets)

NextAny == ReconcileAny

SpecAny == Init /\ [][NextAny]_vars

\* successive polls with the absences of each id counted (the count does not read
\* the clock)
ReconcileHist ==
    \E tweets \in DistinctBatches : ProcessTweets(tweets) /\ RecordAbsences(tweets)

NextHist == ReconcileHist

SpecHist == Init /\ [][NextHist]_vars

\* successive calls with their 'deleted' notifications counted
ReconcileTally ==
    \E tweets \in DistinctBatches : ProcessTweets(tweets) /\ Tally

NextTally == ReconcileTally

SpecTally == Init /\ [][NextTally]_vars

\* calls on batches of numeric and non-numeric ids
ReconcileSort ==
    \E tweets \in SortBatches : ProcessTweets(tweets) /\ UNCHANGED hist

NextSort == ReconcileSort

SpecSort == Init /\ [][NextSort]_vars

\* successive polls, the clock running, with the last appearance of each id recorded
ReconcileSeen ==
    \E tweets \in DistinctBatches : ProcessTweets(tweets) /\ RecordSeen(tweets)

NextSeen == ReconcileSeen \/ Tick

SpecSeen == Init /\ [][NextSeen]_vars

\* a post with a numeric id and two posts with ids that are not numeric
PermTweets ==
    { Tweet(<<"2">>, hello, urlOf(<<"2">>), <<>>, <<>>, 1, FALSE),
      Tweet(<<"a">>, hello, urlOf(<<"a">>), <<>>, <<>>, 0, FALSE),
      Tweet(<<"b">>, hello, urlOf(<<"b">>), <<>>, <<>>, 0, FALSE) }

PermBatches == { tweets \in SeqsUpTo(PermTweets, MaxBatch) : DistinctIds(tweets) }

\* the orders of n items
Perms(n) == { p \in [1..n -> 1..n] : \A i, j \in 1..n : p[i] = p[j] => i = j }

Permuted(tweets, p) == [i \in 1..Len(tweets) |-> tweets[p[i]]]

\* a call on a batch, and the notifications the same call returns for the same
\* items in another feed order
ReconcilePerm ==
    \E tweets \in PermBatches : \E p \in Perms(Len(tweets)) :
      /\ ProcessTweets(tweets)
      /\ shadow' = process_tweets(PreState, Permuted(tweets, p), now).notifications
      /\ UNCHANGED <<repeated, revived, absences, prevAbsences, deletions, seen>>

NextPerm == ReconcilePerm

SpecPerm == Init /\ [][NextPerm]_vars

\* calls on batches whose items differ in the fields the fingerprint leaves out
ReconcileFields ==
    \E tweets \in FieldBatches : ProcessTweets(tweets) /\ UNCHANGED hist

NextFields == ReconcileFields

SpecFields == Init /\ [][NextFields]_vars

(***************************************************************************)
(* One run of a monitor: x_monitor.main (main, run) or the older           *)
(* x_monitor_bot (check_and_send).  Each run is a fresh process.           *)
(***************************************************************************)
Event(op, k, id, ok) == [op |-> op, k |-> k, id |-> id, ok |-> ok]

\* no run is under way
Idle == <<"idle", 0>>

\* exit while a run is under way
Running == -1

statusUrl(id) == <<"x">> \o StatusPrefix \o id

\* posts 2 (before and after an edit) and 10, and an item without a status link
RunItems ==
    { RawItem(statusUrl(<<"2">>), statusUrl(<<"2">>), hello, <<>>, <<>>, 1, FALSE),
      RawItem(statusUrl(<<"2">>), statusUrl(<<"2">>), helloBang, <<>>, <<>>, 1, FALSE),
      RawItem(statusUrl(<<"1", "0">>), None, hello, <<pic>>, <<>>, 0, FALSE),
      RawItem(<<"x">>, None, hello, <<>>, <<>>, 0, FALSE) }

\* the feeds a fetch can return: every post at most once
RunFeeds == { items \in SeqsUpTo(RunItems, MaxBatch) : DistinctIds(parse_feed(items)) }

\* the batches a normalizer can hand over
RunBatches == { parse_feed(items) : items \in RunFeeds }

\* the state files a first run can meet
RunFiles ==
    { NoFile, Unreadable, NotJson, JsonArrayFile,
      JsonOf(<<[id |-> <<"2">>, rec |-> BadRec]>>) }

InitRun ==
    /\ state = <<>>
    /\ loaded = FALSE
    /\ file \in RunFiles
    /\ now = 1
    /\ batch = <<>>
    /\ notifications = <<>>
    /\ repeated = FALSE
    /\ revived = {}
    /\ absences = [id \in Ids |-> 0]
    /\ prevAbsences = [id \in Ids |-> 0]
    /\ deletions = [id \in Ids |-> 0]
    /\ seen = [id \in Ids |-> Unseen]
    /\ shadow = <<>>
    /\ runs = <<>>
    /\ store = <<>>
    /\ bases = <<>>
    /\ raw = <<>>
    /\ entry \in {"main", "legacy"}
    /\ pc = Idle
    /\ log = <<>>
    /\ exit = Running

\* a run that reconciles empty batches too
ReconcilesEmpty(tweets) == FALSE

\* "if not tweets: return"
SkipsReconcile(tweets) == Len(tweets) = 0

\* run: "if not notifications: return", before state.save()
SkipsSave(program, ns) == program = "main" /\ Len(ns) = 0

\* the position after process_tweets
AfterReconcile(program, ns) ==
    IF Len(ns) = 0 THEN <<"save", 0>>
    ELSE IF program = "main" THEN <<"archive", 1>> ELSE <<"notify", 1>>

\* the position after notification k of n is done with
NextNotification(program, k, n) ==
    IF k < n THEN (IF program = "main" THEN <<"archive", k + 1>> ELSE <<"notify", k + 1>>)
    ELSE <<"save", 0>>

\* a run that stops at the first notification that could not be sent
AfterNotifyChecked(program, k, n, ok) ==
    IF ~ok THEN Idle
    ELSE IF program = "main" THEN NextNotification(program, k, n) ELSE <<"archive", k>>

\* the position after the notifier was called for notification k of n: its
\* result is not looked at
AfterNotify(program, k, n, ok) ==
    IF program = "main" THEN NextNotification(program, k, n) ELSE <<"archive", k>>

\* the fetch fails: fetch_feed raises out of run, check_and_send returns 1
FetchFails ==
    /\ pc = Idle
    /\ state' = (IF entry = "main" THEN load(file) ELSE <<>>)
    /\ loaded' = (entry = "main")
    /\ batch' = <<>>
    /\ notifications' = <<>>
    /\ log' = <<Event("fetch", 0, <<>>, FALSE)>>
    /\ exit' = 1
    /\ UNCHANGED <<file, now, bases, raw, runs, store, entry, pc>>

\* the state is loaded, the fetched batch is reconciled, and the run goes on to
\* its notifications, ends, or dies of an exception in process_tweets
Start(tweets) ==
    LET st0 == load(file) IN
    /\ pc = Idle
    /\ batch' = tweets
    /\ log' = <<Event("fetch", 0, <<>>, TRUE)>>
    /\ IF SkipsReconcile(tweets)
       THEN /\ state' = (IF entry = "main" THEN st0 ELSE <<>>)
            /\ loaded' = (entry = "main")
            /\ notifications' = <<>>
            /\ exit' = 0
            /\ pc' = Idle
       ELSE IF Raises(st0)
       THEN /\ state' = st0
            /\ loaded' = TRUE
            /\ notifications' = <<>>
            /\ exit' = 1
            /\ pc' = Idle
       ELSE LET res == process_tweets(st0, tweets, now) IN
            /\ state' = res.st
            /\ loaded' = TRUE
            /\ notifications' = res.notifications
            /\ IF SkipsSave(entry, res.notifications)
               THEN exit' = 0 /\ pc' = Idle
               ELSE exit' = Running /\ pc' = AfterReconcile(entry, res.notifications)
    /\ UNCHANGED <<file, now, bases, raw, runs, store, entry>>

\* main: fetch_feed, parse_feed, process_tweets
StartMain ==
    /\ entry = "main"
    /\ \E items \in RunFeeds : Start(parse_feed(items))

\* check_and_send: fetch_rss, parse_rss, load_state, the reconciliation
StartLegacy ==
    /\ entry = "legacy"
    /\ \E tweets \in RunBatches : Start(tweets)

\* write_archive succeeds; check_and_send then writes the last-id marker
ArchiveOk ==
    /\ pc[1] = "archive"
    /\ LET k == pc[2]
           id == notifications[k][1].id
       IN  IF entry = "main"
           THEN /\ log' = Append(log, Event("archive", k, id, TRUE))
                /\ pc' = <<"notify", k>>
           ELSE /\ log' = log \o <<Event("archive", k, id, TRUE),
                                    Event("last_id", k, id, TRUE)>>
                /\ pc' = NextNotification(entry, k, Len(notifications))
    /\ UNCHANGED <<state, loaded, file, now, batch, notifications, bases, raw,
                   runs, store, entry, exit>>

\* a run that persists its state when write_archive raises
ArchiveFailsSaved ==
    /\ pc[1] = "archive"
    /\ log' = Append(log, Event("archive", pc[2], notifications[pc[2]][1].id, FALSE))
    /\ file' = JsonOf(state)
    /\ pc' = Idle
    /\ exit' = 1
    /\ UNCHANGED <<state, loaded, now, batch, notifications, bases, raw, runs, store, entry>>

\* write_archive raises (write_text fails): nothing catches it
ArchiveFails ==
    /\ pc[1] = "archive"
    /\ log' = Append(log, Event("archive", pc[2], notifications[pc[2]][1].id, FALSE))
    /\ pc' = Idle
    /\ exit' = 1
    /\ UNCHANGED <<state, loaded, file, now, batch, notifications, bases, raw,
                   runs, store, entry>>

\* notify_tweet / notify returns, True or False
Notify ==
    /\ pc[1] = "notify"
    /\ \E ok \in BOOLEAN :
          /\ log' = Append(log, Event("notify", pc[2], notifications[pc[2]][1].id, ok))
          /\ pc' = AfterNotify(entry, pc[2], Len(notifications), ok)
    /\ UNCHANGED <<state, loaded, file, now, batch, notifications, bases, raw,
                   runs, store, entry, exit>>

\* state.save() and save_last_id(tweets[0].id); save_state(state)
Save ==
    /\ pc[1] = "save"
    /\ file' = JsonOf(state)
    /\ log' = IF entry = "main"
              THEN log \o <<Event("save", 0, <<>>, TRUE),
                            Event("last_id", 0, batch[1].id, TRUE)>>
              ELSE Append(log, Event("save", 0, <<>>, TRUE))
    /\ pc' = Idle
    /\ exit' = 0
    /\ UNCHANGED <<state, loaded, now, batch, notifications, bases, raw, runs, store,
                   entry>>

NextRun ==
    \/ FetchFails /\ UNCHANGED hist
    \/ StartMain /\ UNCHANGED hist
    \/ StartLegacy /\ UNCHANGED hist
    \/ ArchiveOk /\ UNCHANGED hist
    \/ ArchiveFails /\ UNCHANGED hist
    \/ Notify /\ UNCHANGED hist
    \/ Save /\ UNCHANGED hist

SpecRun == InitRun /\ [][NextRun]_vars

\* Runs with no Telegram token or chat id in the environment.  main() calls
\* config.validate() and drops the list of errors it returns; send_text,
\* send_photo and send_media_group return False without a request.
NotifyUnconfigured ==
    /\ pc[1] = "notify"
    /\ log' = Append(log, Event("notify", pc[2], notifications[pc[2]][1].id, FALSE))
    /\ pc' = AfterNotify(entry, pc[2], Len(notifications), FALSE)
    /\ UNCHANGED <<state, loaded, file, now, batch, notifications, bases, raw,
                   runs, store, entry, exit>>

\* check_and_send returns 1 before it fetches or loads anything
Refuses ==
    /\ entry = "legacy"
    /\ pc = Idle
    /\ exit' = 1
    /\ log' = <<>>
    /\ UNCHANGED <<state, loaded, file, now, batch, notifications, bases, raw,
                   runs, store, entry, pc>>

NextUnconfigured ==
    \/ StartMain /\ UNCHANGED hist
    \/ Refuses /\ UNCHANGED hist
    \/ ArchiveOk /\ UNCHANGED hist
    \/ NotifyUnconfigured /\ UNCHANGED hist
    \/ Save /\ UNCHANGED hist

SpecUnconfigured == InitRun /\ [][NextUnconfigured]_vars

\* x_monitor.main started again and again by a scheduler, each run on a feed
\* with at least one post, the absences of each id counted over the runs
StartCron ==
    /\ entry = "main"
    /\ \E items \in RunFeeds :
          /\ parse_feed(items) # <<>>
          /\ Start(parse_feed(items))
          /\ RecordAbsences(parse_feed(items))

NextCron ==
    \/ StartCron
    \/ ArchiveOk /\ UNCHANGED hist
    \/ Notify /\ UNCHANGED hist
    \/ Save /\ UNCHANGED hist

SpecCron == Init /\ [][NextCron]_vars

\* Runs of x_monitor.main that can be killed at any point.  write_text opens
\* the state file for writing, which empties it, and then writes the text.
WriteOpen ==
    /\ pc[1] = "save"
    /\ file' = NotJson
    /\ pc' = <<"write", 0>>
    /\ UNCHANGED <<state, loaded, now, batch, notifications, bases, raw, runs, store,
                   entry, log, exit>>

WriteClose ==
    /\ pc[1] = "write"
    /\ file' = JsonOf(state)
    /\ log' = log \o <<Event("save", 0, <<>>, TRUE),
                       Event("last_id", 0, batch[1].id, TRUE)>>
    /\ pc' = Idle
    /\ exit' = 0
    /\ UNCHANGED <<state, loaded, now, batch, notifications, bases, raw, runs, store,
                   entry>>

\* the process is killed
Crash ==
    /\ pc # Idle
    /\ pc' = Idle
    /\ exit' = 1
    /\ UNCHANGED <<state, loaded, file, now, batch, notifications, bases, raw,
                   runs, store, entry, log>>

NextCrash ==
    \/ StartMain /\ UNCHANGED hist
    \/ ArchiveOk /\ UNCHANGED hist
    \/ Notify /\ UNCHANGED hist
    \/ WriteOpen /\ UNCHANGED hist
    \/ WriteClose /\ UNCHANGED hist
    \/ Crash /\ UNCHANGED hist

SpecCrash == Init /\ [][NextCrash]_vars

(***************************************************************************)
(* The fetchers: fetch_feed of x_monitor.feed and fetch_rss of             *)
(* x_monitor_bot.  The log starts with the call and its 'retries' argument *)
(* and then holds each request with what came of it, and each sleep.       *)
(***************************************************************************)
\* what a request can come to: a body with status 200, another status, an empty
\* body, an exception of the requests library
Responses ==
    { <<"2", "0", "0">>, <<"5", "0", "0">>, <<"e", "m", "p", "t", "y">>,
      <<"e", "r", "r", "o", "r">> }

\* requests a call makes before it gives up: fetch_rss loops over range(retries),
\* fetch_feed has one requests.get and no loop
Attempts(program, retries) == IF program = "main" THEN 1 ELSE retries

InitFetch ==
    /\ state = <<>>
    /\ loaded = FALSE
    /\ file = NoFile
    /\ now = 1
    /\ batch = <<>>
    /\ notifications = <<>>
    /\ repeated = FALSE
    /\ revived = {}
    /\ absences = [id \in Ids |-> 0]
    /\ prevAbsences = [id \in Ids |-> 0]
    /\ deletions = [id \in Ids |-> 0]
    /\ seen = [id \in Ids |-> Unseen]
    /\ shadow = <<>>
    /\ runs = <<>>
    /\ store = <<>>
    /\ bases = <<>>
    /\ raw = <<>>
    /\ entry \in {"main", "legacy"}
    /\ pc = <<"fetch", 0>>
    /\ log \in { <<Event("call", retries, <<>>, TRUE)>> : retries \in 1..MaxRetries }
    /\ exit = Running

\* one requests.get with what follows it: the return of the body, the sleep of
\* fetch_rss before its next request, the RuntimeError
Request ==
    /\ pc[1] = "fetch"
    /\ \E resp \in Responses :
          LET k == pc[2] + 1
              ok == resp = <<"2", "0", "0">>
          IN  /\ log' = log \o <<Event("get", k, resp, ok)>>
                          \o (IF ~ok /\ entry = "legacy"
                              THEN <<Event("sleep", k, <<>>, TRUE)>> ELSE <<>>)
              /\ pc' = IF ok THEN <<"fetched", k>>
                       ELSE IF k < Attempts(entry, log[1].k) THEN <<"fetch", k>>
                       ELSE <<"raised", k>>
    /\ UNCHANGED <<state, loaded, file, now, batch, notifications, hist, bases,
                   raw, runs, store, entry, exit>>

SpecFetch == InitFetch /\ [][Request]_vars

(***************************************************************************)
(* Two runs of x_monitor.main started by the scheduler at overlapping      *)
(* times: each is a process with a StateManager of its own, and the state  *)
(* file is what they share.  A run reads the file in load and writes it in *)
(* save; there is no lock around the two.                                  *)
(***************************************************************************)
Procs == 1..2

\* a save that keeps the records of the file that the mapping in memory lacks
saveMerged(f, st) ==
    IF f.kind = "object"
    THEN JsonOf(st \o SelectSeq(f.st, LAMBDA e : ~HasKey(st, e.id)))
    ELSE JsonOf(st)

\* StateManager.save: write_text replaces the file by the mapping in memory
save(f, st) == JsonOf(st)

\* the state file left by an earlier run that saw post 2
OverlapFiles ==
    { NoFile,
      JsonOf(process_tweets(<<>>,
                            <<Tweet(<<"2">>, hello, urlOf(<<"2">>), <<>>, <<>>, 1, FALSE)>>,
                            1).st) }

InitOverlap ==
    /\ state = <<>>
    /\ loaded = FALSE
    /\ file \in OverlapFiles
    /\ now = 1
    /\ batch = <<>>
    /\ notifications = <<>>
    /\ repeated = FALSE
    /\ revived = {}
    /\ absences = [id \in Ids |-> 0]
    /\ prevAbsences = [id \in Ids |-> 0]
    /\ deletions = [id \in Ids |-> 0]
    /\ seen = [id \in Ids |-> Unseen]
    /\ shadow = <<>>
    /\ runs = [i \in Procs |-> [pc |-> "start", st0 |-> <<>>, st |-> <<>>,
                                batch |-> <<>>, notifications |-> <<>>]]
    /\ store = <<>>
    /\ bases = <<>>
    /\ raw = <<>>
    /\ entry = "main"
    /\ pc = Idle
    /\ log = <<>>
    /\ exit = Running

\* main: state.load()
RunLoad(i) ==
    /\ runs[i].pc = "start"
    /\ runs' = [runs EXCEPT ![i].pc = "loaded", ![i].st0 = load(file),
                            ![i].st = load(file)]
    /\ log' = Append(log, Event("load", i, <<>>, TRUE))
    /\ UNCHANGED <<state, loaded, file, now, batch, notifications, hist, bases,
                   raw, entry, pc, exit, store>>

\* run: fetch_feed, parse_feed, process_tweets, and the return of a run that
\* has nothing to notify
RunReconcile(i) ==
    /\ runs[i].pc = "loaded"
    /\ \E tweets \in DistinctBatches \ {<<>>} :
          LET res == process_tweets(runs[i].st, tweets, now) IN
          runs' = [runs EXCEPT
                     ![i].pc = IF SkipsSave(entry, res.notifications)
                               THEN "done" ELSE "reconciled",
                     ![i].st = res.st,
                     ![i].batch = tweets,
                     ![i].notifications = res.notifications]
    /\ UNCHANGED <<state, loaded, file, now, batch, notifications, hist, bases,
                   raw, entry, pc, log, exit, store>>

\* run: the archive and the notifier for each notification, then state.save()
RunSave(i) ==
    /\ runs[i].pc = "reconciled"
    /\ file' = save(file, runs[i].st)
    /\ runs' = [runs EXCEPT ![i].pc = "done"]
    /\ log' = Append(log, Event("save", i, <<>>, TRUE))
    /\ UNCHANGED <<state, loaded, now, batch, notifications, hist, bases,
                   raw, entry, pc, exit, store>>

NextOverlap ==
    \/ \E i \in Procs : RunLoad(i)
    \/ \E i \in Procs : RunReconcile(i)
    \/ \E i \in Procs : RunSave(i)

SpecOverlap == InitOverlap /\ [][NextOverlap]_vars

(***************************************************************************)
(* parse_feed on its own                                                   *)
(***************************************************************************)
\* raw items told apart by their dates: status links in url and id, in id only
\* (url missing, url without a status), none (letters after /status/, empty
\* fields), and two status segments in one url
ParseItems ==
    { RawItem(statusUrl(<<"1", "2">>), statusUrl(<<"1", "2">>), hello, <<>>, <<>>, 1, FALSE),
      RawItem(None, statusUrl(<<"7">>), hello, <<>>, <<>>, 2, FALSE),
      RawItem(<<"x">>, statusUrl(<<"7">>), hello, <<>>, <<>>, 3, FALSE),
      RawItem(statusUrl(<<"a", "1">>), None, hello, <<>>, <<>>, 4, FALSE),
      RawItem(<<>>, <<>>, hello, <<>>, <<>>, 5, FALSE),
      RawItem(statusUrl(<<"3">>) \o statusUrl(<<"4", "5">>), None, hello, <<>>, <<>>, 6, FALSE) }

ParseFeeds == SeqsUpTo(ParseItems, MaxFeed)

Parsed == <<"parsed", 0>>

\* a feed is at hand
InitParse ==
    /\ state = <<>>
    /\ loaded = FALSE
    /\ file = NoFile
    /\ now = 1
    /\ batch = <<>>
    /\ notifications = <<>>
    /\ repeated = FALSE
    /\ revived = {}
    /\ absences = [id \in Ids |-> 0]
    /\ prevAbsences = [id \in Ids |-> 0]
    /\ deletions = [id \in Ids |-> 0]
    /\ seen = [id \in Ids |-> Unseen]
    /\ shadow = <<>>
    /\ runs = <<>>
    /\ store = <<>>
    /\ bases = <<>>
    /\ raw \in ParseFeeds
    /\ entry = "main"
    /\ pc = Idle
    /\ log = <<>>
    /\ exit = Running

\* tweets = parse_feed(raw)
Parse ==
    /\ pc = Idle
    /\ batch' = parse_feed(raw)
    /\ pc' = Parsed
    /\ UNCHANGED <<state, loaded, file, now, notifications, hist, bases, raw,
                   runs, store, entry, log, exit>>

NextParse == Parse

SpecParse == InitParse /\ [][NextParse]_vars

\* a step that is a call of process_tweets
Called == ProcessTweets(batch')

(***************************************************************************)
(* Claims                                                                  *)
(***************************************************************************)

\* C1: for a batch with distinct ids, process_tweets emits exactly one (item, new)
\* notification for each batch item whose id has no record, creates its record
\* with missing_streak = 0, deleted = false and first_seen = last_seen = now, and
\* emits 'new' for no id that already has a record.
C1_NewItems ==
    [][ (Called /\ DistinctIds(batch')) =>
          /\ \A i \in 1..Len(batch') :
                LET t == batch'[i]
                    r2 == Get(state', t.id)
                IN  ~HasKey(PreState, t.id) =>
                      /\ CountPair(notifications', t, "new") = 1
                      /\ Count(notifications', t.id, "new") = 1
                      /\ HasKey(state', t.id)
                      /\ r2.missing_streak = 0
                      /\ r2.deleted = FALSE
                      /\ r2.first_seen = now
                      /\ r2.last_seen = now
          /\ \A id \in Keys(PreState) : Count(notifications', id, "new") = 0 ]_vars

\* a batch of two ids at a later second: one id is new, the other was recorded before
C1_Witness ==
    /\ Len(batch) = 2
    /\ DistinctIds(batch)
    /\ now > 1
    /\ \E i, j \in 1..2 :
          /\ Count(notifications, batch[i].id, "new") = 1
          /\ Get(state, batch[i].id).first_seen = now
          /\ Count(notifications, batch[j].id, "new") = 0
          /\ Get(state, batch[j].id).first_seen < now

\* C2 as stated: for a batch item whose id already has a record, exactly one
\* (item, edited) notification is emitted if and only if the item's fingerprint
\* differs from the stored one, and after the call the record holds the item's
\* fingerprint and snapshot, missing_streak = 0 and deleted = false.
C2_Original ==
    [][ Called =>
          \A i \in 1..Len(batch') :
            LET t == batch'[i]
                r == Get(PreState, t.id)
                r2 == Get(state', t.id)
            IN  r # NoRec =>
                  /\ CountPair(notifications', t, "edited")
                        = (IF content_hash(t) # r.hash THEN 1 ELSE 0)
                  /\ r2.hash = content_hash(t)
                  /\ r2.text = t.text /\ r2.images = t.images
                  /\ r2.videos = t.videos /\ r2.url = t.url
                  /\ r2.missing_streak = 0
                  /\ r2.deleted = FALSE ]_vars

\* C2 amended: the same, for a batch item whose id occurs once in the batch.
C2_EditedOnce ==
    [][ Called =>
          \A i \in 1..Len(batch') :
            LET t == batch'[i]
                r == Get(PreState, t.id)
                r2 == Get(state', t.id)
            IN  (r # NoRec /\ Occurrences(batch', t.id) = 1) =>
                  /\ CountPair(notifications', t, "edited")
                        = (IF content_hash(t) # r.hash THEN 1 ELSE 0)
                  /\ Count(notifications', t.id, "edited")
                        = (IF content_hash(t) # r.hash THEN 1 ELSE 0)
                  /\ r2.hash = content_hash(t)
                  /\ r2.text = t.text /\ r2.images = t.images
                  /\ r2.videos = t.videos /\ r2.url = t.url
                  /\ r2.missing_streak = 0
                  /\ r2.deleted = FALSE ]_vars

\* an id that occurs once in the batch is reported as edited and its record holds
\* the fingerprint of the item
C2_Witness ==
    \E k \in 1..Len(notifications) :
      /\ notifications[k][2] = "edited"
      /\ Occurrences(batch, notifications[k][1].id) = 1
      /\ Get(state, notifications[k][1].id).hash = content_hash(notifications[k][1])

\* C3 as stated: a batch item whose id has a record with an equal fingerprint
\* gives no notification for that id and leaves the record's fingerprint, content
\* snapshot and first_seen unchanged, while last_seen = now, missing_streak = 0
\* and deleted = false.
C3_Original ==
    [][ Called =>
          \A i \in 1..Len(batch') :
            LET t == batch'[i]
                r == Get(PreState, t.id)
                r2 == Get(state', t.id)
            IN  (r # NoRec /\ r.hash = content_hash(t)) =>
                  /\ CountId(notifications', t.id) = 0
                  /\ r2.hash = r.hash
                  /\ r2.text = r.text /\ r2.images = r.images
                  /\ r2.videos = r.videos /\ r2.url = r.url
                  /\ r2.first_seen = r.first_seen
                  /\ r2.last_seen = now
                  /\ r2.missing_streak = 0
                  /\ r2.deleted = FALSE ]_vars

\* C3 amended: a batch item whose id occurs once in the batch and has a record
\* with an equal fingerprint gives no notification for that id and leaves the
\* record's fingerprint and first_seen unchanged; the snapshot (text, images,
\* videos, url) is overwritten with the item's, last_seen = now,
\* missing_streak = 0 and deleted = false.
C3_Unchanged ==
    [][ Called =>
          \A i \in 1..Len(batch') :
            LET t == batch'[i]
                r == Get(PreState, t.id)
                r2 == Get(state', t.id)
            IN  (r # NoRec /\ r.hash = content_hash(t)
                   /\ Occurrences(batch', t.id) = 1) =>
                  /\ CountId(notifications', t.id) = 0
                  /\ r2.hash = r.hash
                  /\ r2.first_seen = r.first_seen
                  /\ r2.text = t.text /\ r2.images = t.images
                  /\ r2.videos = t.videos /\ r2.url = t.url
                  /\ r2.last_seen = now
                  /\ r2.missing_streak = 0
                  /\ r2.deleted = FALSE ]_vars

\* an id recorded at an earlier second is seen again unchanged under its other link
C3_Witness ==
    \E i \in 1..Len(batch) :
      LET t == batch[i]
          r == Get(state, t.id)
      IN  /\ Occurrences(batch, t.id) = 1
          /\ CountId(notifications, t.id) = 0
          /\ r.first_seen < now /\ r.last_seen = now
          /\ t.url = mirrorOf(t.id) /\ r.url = t.url
          /\ r.hash = content_hash(t)

\* C4: for a tracked id, the 1st and 2nd consecutive batches that lack it emit no
\* 'deleted' notification (missing_streak becomes 1, then 2), the 3rd emits
\* exactly one, a 4th emits none, and 'deleted' is never emitted after fewer than
\* three consecutive absences.
C4_Debounce ==
    \A id \in Ids :
      HasKey(state, id) =>
        LET r == Get(state, id)
            n == absences[id]
            d == Count(notifications, id, "deleted")
        IN  /\ n = 1 => (r.missing_streak = 1 /\ ~r.deleted /\ d = 0)
            /\ n = 2 => (r.missing_streak = 2 /\ ~r.deleted /\ d = 0)
            /\ n = 3 => (r.deleted /\ d = 1 /\ CountId(notifications, id) = 1)
            /\ n >= 4 => (r.deleted /\ d = 0)
            /\ d > 0 => n = 3

\* the fourth consecutive absence of an id, right after the one that reported it
C4_Witness ==
    \E id \in Ids :
      /\ HasKey(state, id)
      /\ prevAbsences[id] = 3 /\ absences[id] = 4
      /\ Get(state, id).deleted
      /\ CountId(notifications, id) = 0

\* C5: an id that was absent from one or two consecutive batches and appears in
\* the next has its missing_streak reset to 0 and gets no 'deleted' notification;
\* the streak of a record that is not deleted counts the absences since the id
\* last appeared, so a later deletion takes three new consecutive absences.
C5_Recovery ==
    \A id \in Ids :
      HasKey(state, id) =>
        LET r == Get(state, id) IN
        /\ (id \in BatchIds(batch) /\ prevAbsences[id] \in {1, 2}) =>
              /\ r.missing_streak = 0
              /\ ~r.deleted
              /\ Count(notifications, id, "deleted") = 0
        /\ ~r.deleted => r.missing_streak = absences[id]
        /\ Count(notifications, id, "deleted") > 0 => absences[id] >= 3

\* a tracked id comes back after two absences
C5_Witness ==
    \E id \in Ids :
      /\ HasKey(state, id)
      /\ id \in BatchIds(batch)
      /\ prevAbsences[id] = 2 /\ absences[id] = 0
      /\ Count(notifications, id, "new") = 0
      /\ Get(state, id).missing_streak = 0

\* C6 as stated: a second call in a row with the same batch returns an empty
\* notification list.
C6_Original == repeated => notifications = <<>>

\* C6 amended: a second call in a row with the same batch returns no 'new'
\* notification and no 'edited' notification for an id that occurs once in the
\* batch; it counts as one more poll, so it can return 'deleted' notifications,
\* for ids that the batch lacks.
C6_SecondCall ==
    repeated =>
      \A k \in 1..Len(notifications) :
        LET id == notifications[k][1].id
            status == notifications[k][2]
        IN  /\ status # "new"
            /\ status = "edited" => Occurrences(batch, id) > 1
            /\ status = "deleted" => id \notin BatchIds(batch)

\* a second call with the same non-empty batch reports a deletion
C6_Witness ==
    /\ repeated
    /\ Len(batch) > 0
    /\ \E k \in 1..Len(notifications) : notifications[k][2] = "deleted"

\* C7 as stated: over any sequence of cycles each id receives at most one
\* 'deleted' notification in total.
C7_AtMostOneDeleted == \A id \in Ids : deletions[id] <= 1

\* C8 as stated: once a cycle has set deleted = true for an id, no later cycle
\* sets it back to false.
C8_DeletedTerminal ==
    [][ \A id \in Keys(state) :
          Get(state, id).deleted => Get(state', id).deleted ]_vars

\* C9 as stated: an id whose record has deleted = true and that appears in the
\* batch produces no 'new' (and no 'deleted') notification, 'edited' when its
\* fingerprint differs from the stored one and no notification when it is equal.
C9_Original ==
    [][ Called =>
          \A i \in 1..Len(batch') :
            LET t == batch'[i]
                r == Get(PreState, t.id)
            IN  (r # NoRec /\ r.deleted) =>
                  /\ Count(notifications', t.id, "new") = 0
                  /\ Count(notifications', t.id, "deleted") = 0
                  /\ CountPair(notifications', t, "edited")
                        = (IF content_hash(t) # r.hash THEN 1 ELSE 0) ]_vars

\* C9 amended: the same, for an id that occurs once in the batch.
C9_Reappears ==
    [][ Called =>
          \A i \in 1..Len(batch') :
            LET t == batch'[i]
                r == Get(PreState, t.id)
            IN  (r # NoRec /\ r.deleted /\ Occurrences(batch', t.id) = 1) =>
                  /\ Count(notifications', t.id, "new") = 0
                  /\ Count(notifications', t.id, "deleted") = 0
                  /\ IF content_hash(t) # r.hash
                     THEN /\ CountPair(notifications', t, "edited") = 1
                          /\ CountId(notifications', t.id) = 1
                     ELSE CountId(notifications', t.id) = 0 ]_vars

\* an id whose record was deleted comes back edited, once in the batch
C9_Witness ==
    \E id \in revived :
      /\ Occurrences(batch, id) = 1
      /\ Count(notifications, id, "edited") = 1
      /\ CountId(notifications, id) = 1

\* the numeric value of an id, a non-numeric id counting as 0
NumericValue(id) == IF isdigit(id) THEN int(id) ELSE 0

\* C10: the returned list is in ascending order of the numeric value of the id,
\* a non-numeric id counting as 0; new ids "10" and "2" come out as "2", "10".
C10_Sorted ==
    /\ \A i, j \in 1..Len(notifications) :
          i < j => NumericValue(notifications[i][1].id)
                     <= NumericValue(notifications[j][1].id)
    /\ ( /\ Len(batch) = 2
         /\ batch[1].id = <<"1", "0">> /\ batch[2].id = <<"2">>
         /\ Count(notifications, <<"1", "0">>, "new") = 1
         /\ Count(notifications, <<"2">>, "new") = 1 )
        => \E i, j \in 1..Len(notifications) :
             /\ i < j
             /\ notifications[i] = <<batch[2], "new">>
             /\ notifications[j] = <<batch[1], "new">>

\* ids "10" and a non-numeric one are new in this order and come out reversed
C10_Witness ==
    /\ Len(batch) = 2
    /\ batch[1].id = <<"1", "0">> /\ batch[2].id = <<"a">>
    /\ Len(notifications) = 2
    /\ notifications[1] = <<batch[2], "new">>
    /\ notifications[2] = <<batch[1], "new">>

\* C11: two items with equal (text, images, videos) have equal fingerprints
\* whatever their timestamp, author, url, quote and retweet fields; a call in which
\* every item of a tracked id has the (text, images, videos) of its record emits
\* no 'edited' notification for that id and leaves the stored fingerprint as it was.
C11_PresentationOnly ==
    [][ Called =>
          /\ \A i, j \in 1..Len(batch') :
                Triple(batch'[i]) = Triple(batch'[j])
                  => content_hash(batch'[i]) = content_hash(batch'[j])
          /\ \A id \in Keys(PreState) \cap BatchIds(batch') :
                LET r == Get(PreState, id) IN
                (\A i \in 1..Len(batch') :
                    batch'[i].id = id => Triple(batch'[i]) = Triple(r))
                  => /\ Count(notifications', id, "edited") = 0
                     /\ Get(state', id).hash = r.hash ]_vars

\* a tracked post comes twice in a batch, its two items differing in link, date,
\* retweet mark, quote and author and in nothing else, and nothing is reported
C11_Witness ==
    /\ Len(batch) = 2
    /\ batch[1].id = batch[2].id
    /\ Triple(batch[1]) = Triple(batch[2])
    /\ batch[1].url # batch[2].url
    /\ batch[1].timestamp # batch[2].timestamp
    /\ batch[1].is_retweet # batch[2].is_retweet
    /\ batch[1].quote_text # batch[2].quote_text
    /\ batch[1].quote_author # batch[2].quote_author
    /\ batch[1].author_name # batch[2].author_name
    /\ batch[1].author_avatar # batch[2].author_avatar
    /\ notifications = <<>>
    /\ Get(state, batch[1].id).hash = content_hash(batch[2])

\* the positions of the log with an operation
At(op) == { i \in 1..Len(log) : log[i].op = op }

\* the run has handled notification k with an operation
Did(op, k) == \E i \in At(op) : log[i].k = k

\* the state file holds a mapping from ids to records
ValidStateFile(f) == f.kind = "object" /\ \A i \in 1..Len(f.st) : f.st[i].rec # BadRec

\* C12 as stated: when a run of x_monitor.main.run that reconciled a batch has
\* returned, the state file holds the mapping process_tweets returned, written in
\* one piece and no more than once, whether the run emitted notifications or not.
C12_SavedOnce ==
    (entry = "main" /\ pc = Idle /\ exit = 0 /\ batch # <<>>) =>
       /\ Cardinality(At("save")) <= 1
       /\ file = JsonOf(state)

\* C13: a run whose fetch fails or yields no items leaves the state file as it
\* was, takes the loaded mapping as it is (no missing_streak is touched), emits no
\* notification, calls neither the archive writer nor the notifier, and ends at
\* once; after a failed fetch its completion signal is 1.
C13_NoBatch ==
    [][ (pc = Idle /\ (~log'[1].ok \/ batch' = <<>>)) =>
          /\ file' = file
          /\ state' \in {load(file), <<>>}
          /\ notifications' = <<>>
          /\ Len(log') = 1
          /\ pc' = Idle
          /\ (~log'[1].ok => exit' = 1)
          /\ (log'[1].ok => exit' = 0) ]_vars

\* a fetch fails while the state file tracks a post that is not deleted
C13_Witness ==
    /\ pc = Idle
    /\ Len(log) = 1 /\ ~log[1].ok
    /\ exit = 1
    /\ ValidStateFile(file)
    /\ \E i \in 1..Len(file.st) : ~file.st[i].rec.deleted

\* C14 as stated: whatever the state file holds, a run that reconciles a batch
\* does not die: a file that holds no mapping from ids to records counts as the
\* empty state, and every batch item is reported as 'new'.
C14_ColdStart ==
    [][ (pc = Idle /\ log'[1].ok /\ batch' # <<>> /\ ~ValidStateFile(file)) =>
          /\ exit' # 1
          /\ \A i \in 1..Len(batch') :
                CountPair(notifications', batch'[i], "new") = 1 ]_vars

\* C15 as stated: when the archive write of notification k has failed, the
\* notifier is still called for k and for every later notification of the run,
\* and the run ends with the updated state persisted.
C15_ArchiveFailureTolerated ==
    \A i \in At("archive") :
      (~log[i].ok /\ pc = Idle) =>
         /\ \A k \in log[i].k..Len(notifications) : Did("notify", k)
         /\ file = JsonOf(state)

\* C16: a run in which the notifier has failed, and nothing else has, is not over
\* before every notification was archived and handed to the notifier and the
\* updated state was persisted; it ends with completion signal 0.
C16_NotifierFailureTolerated ==
    ( /\ pc = Idle
      /\ \E i \in At("notify") : ~log[i].ok
      /\ \A i \in At("archive") : log[i].ok )
    => /\ \A k \in 1..Len(notifications) : Did("archive", k) /\ Did("notify", k)
       /\ Cardinality(At("save")) = 1
       /\ file = JsonOf(state)
       /\ exit = 0

\* a run of main with two notifications has ended; the notifier failed for the
\* first and was called for the second, and the state is persisted
C16_Witness ==
    /\ entry = "main"
    /\ pc = Idle
    /\ Len(notifications) = 2
    /\ \E i, j \in At("notify") :
          /\ i < j
          /\ log[i].k = 1 /\ ~log[i].ok
          /\ log[j].k = 2
    /\ Did("archive", 2)
    /\ file = JsonOf(state)

\* C18 as stated: in a run of either program the archive of a notification is
\* written before the notifier is called for it, the notifications are handled in
\* the order process_tweets returned them, and the state is persisted only after
\* the last notification was archived and handed to the notifier.
C18_ArchiveThenNotify ==
    /\ \A i \in At("notify") :
          \E j \in At("archive") : j < i /\ log[j].k = log[i].k
    /\ \A i, j \in At("archive") \cup At("notify") :
          i < j => log[i].k <= log[j].k
    /\ \A i \in At("save") :
          \A k \in 1..Len(notifications) :
            /\ \E j \in At("archive") : j < i /\ log[j].k = k
            /\ \E j \in At("notify") : j < i /\ log[j].k = k

\* a raw item has a /status/<digits> segment in its url or its id field
Extractable(item) == StatusMatches(item.url) # {} \/ StatusMatches(item.id) # {}

\* the digit runs that follow /status/ in the url or the id field of a raw item
StatusIds(item) ==
    { DigitRun(item.url, p + Len(StatusPrefix)) : p \in StatusMatches(item.url) }
      \cup { DigitRun(item.id, p + Len(StatusPrefix)) : p \in StatusMatches(item.id) }

\* the position in a feed of its j-th item with a status id
NthExtractable(items, j) ==
    CHOOSE i \in 1..Len(items) :
      /\ Extractable(items[i])
      /\ Cardinality({ h \in 1..i : Extractable(items[h]) }) = j

RECURSIVE Closing(_, _)
Closing(s, i) ==
    IF i > Len(s) THEN 0
    ELSE IF s[i] = ">" THEN i
    ELSE Closing(s, i + 1)

\* _clean_html: re.sub(r'<[^>]+>', '', text)
RECURSIVE clean_html(_)
clean_html(text) ==
    IF Len(text) = 0 THEN <<>>
    ELSE IF text[1] = "<" /\ Closing(text, 2) > 2
    THEN clean_html(SubSeq(text, Closing(text, 2) + 1, Len(text)))
    ELSE <<text[1]>> \o clean_html(Tail(text))

\* _parse_item: the text of the Tweet it returns
item_text(item) ==
    LET base_html == IF Len(item.content_html) >= Len(item.summary)
                     THEN item.content_html ELSE item.summary
        text == clean_html(base_html)
        title_clean == clean_html(item.title)
    IN  IF Len(title_clean) > 0 /\ Len(title_clean) > Len(text)
        THEN title_clean ELSE text

\* markup without tags, with a tag in front, with tags around
Htmls ==
    { <<>>, <<"a">>, <<"a", "b", "c">>, <<"<", "b", ">", "a">>,
      <<"<", "i", ">", "a", "b", "<", "/", "i", ">">> }

\* a feed with one item is at hand
InitText ==
    /\ state = <<>>
    /\ loaded = FALSE
    /\ file = NoFile
    /\ now = 1
    /\ batch = <<>>
    /\ notifications = <<>>
    /\ repeated = FALSE
    /\ revived = {}
    /\ absences = [id \in Ids |-> 0]
    /\ prevAbsences = [id \in Ids |-> 0]
    /\ deletions = [id \in Ids |-> 0]
    /\ seen = [id \in Ids |-> Unseen]
    /\ shadow = <<>>
    /\ runs = <<>>
    /\ store = <<>>
    /\ bases = <<>>
    /\ raw \in { <<[content_html |-> c, summary |-> m, title |-> t]>> :
                   c \in Htmls, m \in Htmls, t \in Htmls }
    /\ entry = "main"
    /\ pc = Idle
    /\ log = <<>>
    /\ exit = Running

\* tweets = parse_feed(raw), for an item with a status link of post 2
ParseText ==
    /\ pc = Idle
    /\ batch' = [i \in 1..Len(raw) |->
                   Tweet(<<"2">>, item_text(raw[i]), urlOf(<<"2">>), <<>>, <<>>, 0, FALSE)]
    /\ pc' = Parsed
    /\ UNCHANGED <<state, loaded, file, now, notifications, hist, bases, raw,
                   runs, store, entry, log, exit>>

SpecText == InitText /\ [][ParseText]_vars

(***************************************************************************)
(* The media of a normalized item.  Here the markup is the sequence of its *)
(* media elements: an <img src=...> tag, a <video src=...> tag whose       *)
(* source is an .mp4 file, or the bare link of an .mp4 file in the text.   *)
(***************************************************************************)
Markups ==
    SeqsUpTo([tag : {"img", "video", "link"}, src : {<<"u">>, <<"v">>}], MaxMarkup)

\* the sources of the elements with one of the tags, in the order of the markup:
\* what re.finditer yields
RECURSIVE Srcs(_, _)
Srcs(markup, tags) ==
    IF Len(markup) = 0 THEN <<>>
    ELSE (IF markup[1].tag \in tags THEN <<markup[1].src>> ELSE <<>>)
         \o Srcs(Tail(markup), tags)

\* 'if url not in urls: urls.append(url)' over a list of matches
RECURSIVE Dedup(_)
Dedup(urls) ==
    IF Len(urls) = 0 THEN <<>>
    ELSE LET front == Dedup(SubSeq(urls, 1, Len(urls) - 1))
             url == urls[Len(urls)]
         IN  IF \E i \in 1..Len(front) : front[i] = url
             THEN front ELSE Append(front, url)

\* _extract_media of x_monitor.feed: the img tags; the video tags and then the
\* .mp4 links, which the sources of the video tags are as well
extract_media(markup) ==
    [images |-> Dedup(Srcs(markup, {"img"})),
     videos |-> Dedup(Srcs(markup, {"video"}) \o Srcs(markup, {"video", "link"}))]

\* _extract_media of x_monitor_bot: every img tag and every .mp4 link is appended
extract_media_rss(desc) ==
    [images |-> Srcs(desc, {"img"}),
     videos |-> Srcs(desc, {"video", "link"})]

\* a feed with one item is at hand, of either format
InitMedia ==
    /\ state = <<>>
    /\ loaded = FALSE
    /\ file = NoFile
    /\ now = 1
    /\ batch = <<>>
    /\ notifications = <<>>
    /\ repeated = FALSE
    /\ revived = {}
    /\ absences = [id \in Ids |-> 0]
    /\ prevAbsences = [id \in Ids |-> 0]
    /\ deletions = [id \in Ids |-> 0]
    /\ seen = [id \in Ids |-> Unseen]
    /\ shadow = <<>>
    /\ runs = <<>>
    /\ store = <<>>
    /\ bases = <<>>
    /\ raw \in { <<[content_html |-> markup]>> : markup \in Markups }
    /\ entry \in {"main", "legacy"}
    /\ pc = Idle
    /\ log = <<>>
    /\ exit = Running

\* tweets = parse_feed(raw) or parse_rss(content), for an item with a status
\* link of post 2
ParseMedia ==
    /\ pc = Idle
    /\ batch' = [i \in 1..Len(raw) |->
                   LET media == IF entry = "main"
                                THEN extract_media(raw[i].content_html)
                                ELSE extract_media_rss(raw[i].content_html)
                   IN  Tweet(<<"2">>, hello, urlOf(<<"2">>), media.images,
                             media.videos, 0, FALSE)]
    /\ pc' = Parsed
    /\ UNCHANGED <<state, loaded, file, now, notifications, hist, bases, raw,
                   runs, store, entry, log, exit>>

SpecMedia == InitMedia /\ [][ParseMedia]_vars

(***************************************************************************)
(* content_hash on its own: the strings digested for two posts             *)
(***************************************************************************)
bar == <<"|">>

HashTexts == { <<>>, <<"p">>, bar \o bar \o <<"p">> }

HashImages ==
    { <<>>, << <<"p">> >>, << <<"p">> \o bar \o bar >>,
      << <<"b">>, <<"c">> >>, << <<"b">> \o bar \o <<"c">> >> }

HashVideos == { <<>>, << <<"p">> >> }

HashTweets ==
    { Tweet(<<"2">>, text, urlOf(<<"2">>), images, videos, 0, FALSE) :
        text \in HashTexts, images \in HashImages, videos \in HashVideos }

Hashed == <<"hashed", 0>>

\* two posts are at hand
InitHash ==
    /\ state = <<>>
    /\ loaded = FALSE
    /\ file = NoFile
    /\ now = 1
    /\ batch \in [1..2 -> HashTweets]
    /\ notifications = <<>>
    /\ repeated = FALSE
    /\ revived = {}
    /\ absences = [id \in Ids |-> 0]
    /\ prevAbsences = [id \in Ids |-> 0]
    /\ deletions = [id \in Ids |-> 0]
    /\ seen = [id \in Ids |-> Unseen]
    /\ shadow = <<>>
    /\ runs = <<>>
    /\ store = <<>>
    /\ bases = <<>>
    /\ raw = <<>>
    /\ entry = "main"
    /\ pc = Idle
    /\ log = <<>>
    /\ exit = Running

\* base = "||".join([...]) of content_hash, for each of the posts
Digest ==
    /\ pc = Idle
    /\ bases' = [i \in 1..Len(batch) |-> base(batch[i])]
    /\ pc' = Hashed
    /\ UNCHANGED <<state, loaded, file, now, batch, notifications, hist, raw,
                   runs, store, entry, log, exit>>

NextHash == Digest

SpecHash == InitHash /\ [][NextHash]_vars

\* C19 as stated: after each run of x_monitor.main on a non-empty batch, the
\* persisted missing_streak of a record that is not deleted is the number of
\* consecutive runs whose batch lacked its id, and the run that is the third in a
\* row to lack a tracked id emits exactly one (id, deleted) notification.
C19_StreakAcrossRuns ==
    (pc = Idle /\ exit = 0 /\ file.kind = "object") =>
      \A id \in Keys(file.st) :
        LET r == Get(file.st, id) IN
        /\ ~r.deleted => r.missing_streak = absences[id]
        /\ (prevAbsences[id] = 2 /\ absences[id] = 3)
              => Count(notifications, id, "deleted") = 1

\* C20 as stated: two posts whose (text, images, videos) triples differ never
\* give content_hash the same joined string to digest; in particular a post
\* with empty text and one image never collides with a post with non-empty
\* text and no images.
C20_GroupsSeparated ==
    pc = Hashed =>
      \A i, j \in 1..Len(batch) :
        /\ Triple(batch[i]) # Triple(batch[j]) => bases[i] # bases[j]
        /\ ( /\ batch[i].text = <<>> /\ Len(batch[i].images) = 1
             /\ batch[j].text # <<>> /\ batch[j].images = <<>> )
              => bases[i] # bases[j]

\* C21 as stated: the last_seen of every record is the 'now' of the most recent
\* call whose batch had its id.
C21_LastObservation ==
    \A id \in Keys(state) : Get(state, id).last_seen = seen[id].at

\* C22: a call of process_tweets removes no record, deleted or not, and leaves
\* the first_seen of every record it found unchanged; a record it creates gets
\* the 'now' of the call as first_seen; first_seen <= last_seen in every record.
C22_Retained ==
    [][ /\ \A id \in Keys(state) :
              /\ HasKey(state', id)
              /\ Get(state', id).first_seen = Get(state, id).first_seen
        /\ \A id \in Keys(state') \ Keys(state) :
              Get(state', id).first_seen = now
        /\ \A id \in Keys(state') :
              Get(state', id).first_seen <= Get(state', id).last_seen ]_vars

\* a record marked deleted is still in the state at a later second, beside a
\* record created in that second
C22_Witness ==
    /\ \E id \in Keys(state) :
          Get(state, id).deleted /\ Get(state, id).first_seen < now
    /\ \E id \in Keys(state) : Get(state, id).first_seen = now
    /\ now > 1

\* C23: the item of an (id, deleted) notification has the text, url, images and
\* videos of the item of the most recent batch that had the id, and is_retweet
\* false.
C23_Reconstructed ==
    \A k \in 1..Len(notifications) :
      notifications[k][2] = "deleted" =>
        LET t == notifications[k][1]
            last == seen[t.id].item
        IN  /\ last # NoItem
            /\ t.text = last.text
            /\ t.url = last.url
            /\ t.images = last.images
            /\ t.videos = last.videos
            /\ t.is_retweet = FALSE

\* post 10, a repost with a picture, is reported deleted under the link it was
\* served with last, after it had been served with another link
C23_Witness ==
    \E k \in 1..Len(notifications) :
      /\ notifications[k][2] = "deleted"
      /\ notifications[k][1].id = <<"1", "0">>
      /\ notifications[k][1].url = mirrorOf(<<"1", "0">>)
      /\ Get(state, <<"1", "0">>).first_seen < seen[<<"1", "0">>].at

\* C24 as stated: from the same starting state, process_tweets returns the same
\* notification list, pair by pair, for every order of the items of a batch.
C24_OrderIndependent == shadow = notifications

\* both runs have read the state file before either has written it
Overlapped ==
    /\ Cardinality(At("load")) = 2
    /\ \A i \in At("load") : \A j \in At("save") : i < j

\* the run that wrote the state file last, and the one that wrote it first
LastSaver == log[CHOOSE j \in At("save") : \A i \in At("save") : i <= j].k
FirstSaver == log[CHOOSE j \in At("save") : \A i \in At("save") : j <= i].k

\* C25: when two runs overlap, both work on the mapping that was in the file
\* before either saved, so both report as new an id of both batches that this
\* mapping lacks; and when both have ended, the file holds exactly the mapping
\* of the run that saved last, which has nothing of what the other run wrote.
C25_LastWriterWins ==
    Overlapped =>
      /\ runs[1].st0 = runs[2].st0
      /\ \A i \in Procs : \A id \in BatchIds(runs[1].batch) \cap BatchIds(runs[2].batch) :
            ~HasKey(runs[i].st0, id) => Count(runs[i].notifications, id, "new") = 1
      /\ (\A i \in Procs : runs[i].pc = "done") /\ At("save") # {}
            => file = JsonOf(runs[LastSaver].st)

\* two overlapping runs have ended: both reported post 2 as new, and the file
\* lacks post 10, which the run that saved first had written
C25_Witness ==
    /\ Overlapped
    /\ \A i \in Procs : runs[i].pc = "done"
    /\ Cardinality(At("save")) = 2
    /\ \A i \in Procs : Count(runs[i].notifications, <<"2">>, "new") = 1
    /\ HasKey(runs[FirstSaver].st, <<"1", "0">>)
    /\ ~HasKey(file.st, <<"1", "0">>)

\* C26 as stated: whenever no run is under way, also after a run was killed, the
\* state file is absent (no run has saved yet) or holds a complete mapping,
\* never a partly written text that the next run would load as the empty state.
C26_AtomicRewrite ==
    pc = Idle => file = NoFile \/ ValidStateFile(file)

\* C29 as stated: a fetch makes at most 'retries' requests, returns with the first
\* one that succeeds, and raises RuntimeError only when 'retries' requests have
\* failed; a sleep of 'backoff' seconds lies between two requests.
C29_Retries ==
    LET retries == log[1].k
        gets == At("get")
    IN  /\ Cardinality(gets) <= retries
        /\ \A i \in gets : log[i].ok => pc[1] = "fetched" /\ i = Len(log)
        /\ pc[1] = "fetched" => log[Len(log)].op = "get" /\ log[Len(log)].ok
        /\ pc[1] = "raised" =>
              Cardinality(gets) = retries /\ \A i \in gets : ~log[i].ok
        /\ \A i, j \in gets : i < j => \E m \in At("sleep") : i < m /\ m < j

\* C30: in every state reached from the empty state, each record has a
\* missing_streak from 0 to 3, and is marked deleted exactly when it is 3.
C30_StreakRange ==
    \A id \in Keys(state) :
      LET r == Get(state, id) IN
      /\ r.missing_streak \in 0..3
      /\ r.deleted <=> r.missing_streak = 3

\* one record is marked deleted after three absences, another has been absent twice
C30_Witness ==
    /\ \E id \in Keys(state) : Get(state, id).deleted /\ absences[id] >= 3
    /\ \E id \in Keys(state) : Get(state, id).missing_streak = 2

\* the larger of two numbers
Max(a, b) == IF a >= b THEN a ELSE b

\* C27 as stated: the text of the item parse_feed returns is one of the texts
\* that content_html, summary and title give when their markup is stripped, and
\* none of the three is longer.
C27_LongestText ==
    pc = Parsed =>
      \A i \in 1..Len(raw) :
        LET c == clean_html(raw[i].content_html)
            m == clean_html(raw[i].summary)
            t == clean_html(raw[i].title)
        IN  /\ batch[i].text \in {c, m, t}
            /\ Len(batch[i].text) = Max(Len(c), Max(Len(m), Len(t)))

\* the urls of a list, each once, in the order of their first occurrence
RECURSIVE FirstOccurrences(_)
FirstOccurrences(urls) ==
    IF Len(urls) = 0 THEN <<>>
    ELSE <<urls[1]>> \o FirstOccurrences(SelectSeq(Tail(urls), LAMBDA u : u # urls[1]))

\* C28 as stated: the images and the videos of an item a normalizer returns hold
\* no url twice and are in the order in which the urls first occur in the markup.
C28_MediaOrdered ==
    pc = Parsed =>
      \A i \in 1..Len(raw) :
        LET markup == raw[i].content_html IN
        /\ batch[i].images = FirstOccurrences(Srcs(markup, {"img"}))
        /\ batch[i].videos = FirstOccurrences(Srcs(markup, {"video", "link"}))
\* C31 as stated: a call emits at most one notification for an id, whether or not
\* the id occurs more than once in the batch, and no 'deleted' notification for
\* an id of the batch.
C31_Original ==
    loaded =>
      \A id \in Ids :
        /\ CountId(notifications, id) <= 1
        /\ id \in BatchIds(batch) => Count(notifications, id, "deleted") = 0

\* C31 amended: a call emits at most one notification for an id that occurs at
\* most once in the batch and at most one for each occurrence of an id that
\* occurs several times, and no 'deleted' notification for an id of the batch.
C31_OnePerOccurrence ==
    loaded =>
      \A id \in Ids :
        /\ CountId(notifications, id) <= Max(Occurrences(batch, id), 1)
        /\ id \in BatchIds(batch) => Count(notifications, id, "deleted") = 0

\* an id is twice in the batch and has two notifications, and a record that left
\* the feed is reported deleted in the same call
C31_Witness ==
    /\ loaded
    /\ \E id \in BatchIds(batch) :
          /\ Occurrences(batch, id) = 2
          /\ CountId(notifications, id) = 2
    /\ \E id \in Ids \ BatchIds(batch) : Count(notifications, id, "deleted") = 1

\* a run has ended in which the notifier failed and no archive write did
DeliveryFailed ==
    /\ pc = Idle
    /\ \E i \in At("notify") : ~log[i].ok
    /\ \A i \in At("archive") : log[i].ok

Aborted ==
    /\ entry = "main"
    /\ pc = Idle
    /\ exit = 1
    /\ \E i \in At("archive") : ~log[i].ok

\* C33: no step of a run of main before its save changes the state file, and
\* the run that follows a run ended in the notification loop, on the same feed
\* content, emits again every 'new' and 'edited' notification of the ended run,
\* those already handed to the notifier included.
C33_AbortedRunRepeats ==
    [][ /\ (entry = "main" /\ pc[1] # "save") => file' = file
        /\ ( /\ Aborted
              /\ log' = <<Event("fetch", 0, <<>>, TRUE)>>
              /\ batch' = batch )
           => \A k \in 1..Len(notifications) :
                notifications[k][2] \in {"new", "edited"}
                  => CountPair(notifications', notifications[k][1],
                               notifications[k][2]) = 1 ]_vars

\* a run of main delivered its first notification, of a new post, and was ended
\* by the archive write of the second; the state file has no record of the post
C33_Witness ==
    /\ Aborted
    /\ Len(notifications) = 2
    /\ notifications[1][2] = "new"
    /\ \E i \in At("notify") : log[i].k = 1 /\ log[i].ok
    /\ \E i \in At("archive") : log[i].k = 2 /\ ~log[i].ok
    /\ ~HasKey(load(file), notifications[1][1].id)

\* C35: with no Telegram token or chat id configured, no step of a run of either
\* program changes the state file or writes the last-id marker.
C35_NothingMarkedSeen ==
    [][ /\ file' = file
        /\ \A i \in 1..Len(log') : log'[i].op # "last_id" ]_vars

(***************************************************************************)
(* gakmas_update_bot: check_update fetches the manifest of each target and *)
(* keeps the MD5 of the last one it saw in a hash file of the target.      *)
(* store is the sequence of the two hash files, raw the responses of the   *)
(* last run, log what the run did: a "get" for each target it requested,   *)
(* an "update" for each message it appended, a "report" when it sent or    *)
(* printed the messages.                                                   *)
(***************************************************************************)
Targets == <<"Mobile Manifest", "PC Manifest">>

\* hashlib.md5(b).hexdigest(), idealised as a collision-free digest
md5_of_bytes(b) == <<"#">> \o b

Blank == {" ", "\n"}

\* str.strip()
RECURSIVE strip(_)
strip(text) ==
    IF Len(text) = 0 THEN text
    ELSE IF text[1] \in Blank THEN strip(Tail(text))
    ELSE IF text[Len(text)] \in Blank THEN strip(SubSeq(text, 1, Len(text) - 1))
    ELSE text

HashFile(text) == [kind |-> "hash", text |-> text]

\* the hash files a run can meet: none, an empty one, the digest of a manifest as
\* the bot writes it, the same with a line end after it
HashFiles ==
    { NoFile, HashFile(<<>>), HashFile(md5_of_bytes(<<"a">>)),
      HashFile(md5_of_bytes(<<"a">>) \o <<"\n">>) }

\* what session.get can come to: a manifest with status 200, a body with another
\* status, an exception
ManifestResponses ==
    { [raised |-> FALSE, status |-> 200, content |-> <<"a">>],
      [raised |-> FALSE, status |-> 200, content |-> <<"b">>],
      [raised |-> FALSE, status |-> 404, content |-> <<"b">>],
      [raised |-> TRUE, status |-> 0, content |-> <<>>] }

\* a loop body that takes the body of any response for a manifest
CheckTargetAnyStatus(k, r, acc) ==
    IF r.raised
    THEN [acc EXCEPT !.log = Append(@, Event("get", k, Targets[k], FALSE))]
    ELSE LET cur_hash == md5_of_bytes(r.content)
             last_hash == IF acc.files[k] = NoFile THEN <<>>
                          ELSE strip(acc.files[k].text)
         IN  IF cur_hash # last_hash
             THEN [files |-> [acc.files EXCEPT ![k] = HashFile(cur_hash)],
                   log |-> acc.log \o <<Event("get", k, Targets[k], TRUE),
                                        Event("update", k, Targets[k], TRUE)>>,
                   update_detected |-> TRUE]
             ELSE [acc EXCEPT !.log = Append(@, Event("get", k, Targets[k], TRUE))]

\* the body of "for name, url in targets.items()", with its try and except
CheckTarget(k, r, acc) ==
    IF r.raised
    THEN [acc EXCEPT !.log = Append(@, Event("get", k, Targets[k], FALSE))]
    ELSE IF r.status = 200
    THEN LET cur_hash == md5_of_bytes(r.content)
             last_hash == IF acc.files[k] = NoFile THEN <<>>
                          ELSE strip(acc.files[k].text)
         IN  IF cur_hash # last_hash
             THEN [files |-> [acc.files EXCEPT ![k] = HashFile(cur_hash)],
                   log |-> acc.log \o <<Event("get", k, Targets[k], TRUE),
                                        Event("update", k, Targets[k], TRUE)>>,
                   update_detected |-> TRUE]
             ELSE [acc EXCEPT !.log = Append(@, Event("get", k, Targets[k], TRUE))]
    ELSE [acc EXCEPT !.log = Append(@, Event("get", k, Targets[k], FALSE))]

RECURSIVE CheckTargets(_, _, _)
CheckTargets(k, responses, acc) ==
    IF k > Len(Targets) THEN acc
    ELSE CheckTargets(k + 1, responses, CheckTarget(k, responses[k], acc))

InitManifest ==
    /\ state = <<>>
    /\ loaded = FALSE
    /\ file = NoFile
    /\ now = 1
    /\ batch = <<>>
    /\ notifications = <<>>
    /\ repeated = FALSE
    /\ revived = {}
    /\ absences = [id \in Ids |-> 0]
    /\ prevAbsences = [id \in Ids |-> 0]
    /\ deletions = [id \in Ids |-> 0]
    /\ seen = [id \in Ids |-> Unseen]
    /\ shadow = <<>>
    /\ runs = <<>>
    /\ store \in [1..Len(Targets) -> HashFiles]
    /\ bases = <<>>
    /\ raw = <<>>
    /\ entry = "gakmas"
    /\ pc = Idle
    /\ log = <<>>
    /\ exit = Running

\* one run of check_update
GakmasCheckUpdate ==
    \E responses \in [1..Len(Targets) -> ManifestResponses] :
      LET acc == CheckTargets(1, responses,
                              [files |-> store, log |-> <<>>, update_detected |-> FALSE])
      IN  /\ raw' = responses
          /\ store' = acc.files
          /\ log' = IF acc.update_detected
                    THEN Append(acc.log, Event("report", 0, <<>>, TRUE))
                    ELSE acc.log
          /\ exit' = 0
          /\ UNCHANGED <<state, loaded, file, now, batch, notifications, hist,
                         bases, entry, pc, runs>>

SpecManifest == InitManifest /\ [][GakmasCheckUpdate]_vars

\* C34: in a run of check_update every target is requested; the hash file of a
\* target changes, or an update of it is reported, only when its response had
\* status 200 and the MD5 of its body differs from the stored hash (a missing
\* file differs from every MD5); after another status or an exception the file
\* is as it was and no update of the target is reported.
C34_HashOnlyOnChange ==
    [][ Len(raw') = Len(Targets) =>
          \A k \in 1..Len(Targets) :
            LET r == raw'[k]
                stored == IF store[k] = NoFile THEN <<>> ELSE strip(store[k].text)
                changed == store'[k] # store[k]
                reported == \E i \in 1..Len(log') :
                               log'[i].op = "update" /\ log'[i].k = k
                differs == /\ ~r.raised
                           /\ r.status = 200
                           /\ md5_of_bytes(r.content) # stored
            IN  /\ \E i \in 1..Len(log') : log'[i].op = "get" /\ log'[i].k = k
                /\ (changed \/ reported) => differs
                /\ (r.raised \/ r.status # 200) => ~changed /\ ~reported
                /\ reported => \E i \in 1..Len(log') : log'[i].op = "report" ]_vars

\* a run whose request for the first target raised and which found a new manifest
\* for the second one: the first target has no hash file still, the second the
\* MD5 of the manifest, and its update, alone, was reported
C34_Witness ==
    /\ Len(raw) = Len(Targets)
    /\ raw[1].raised
    /\ store[1] = NoFile
    /\ raw[2].status = 200
    /\ store[2] = HashFile(md5_of_bytes(raw[2].content))
    /\ \E i \in 1..Len(log) : log[i].op = "update" /\ log[i].k = 2
    /\ \A i \in 1..Len(log) : log[i].op = "update" => log[i].k = 2
    /\ \E i \in 1..Len(log) : log[i].op = "report"

(***************************************************************************)
(* gkmas_update_bot: check_update reads the revisions of its last          *)
(* notification back from the notification file, asks each target for its  *)
(* revision, and sends and rewrites the notification when one has changed.  *)
(* store is the notification file, raw the responses of the last run, log   *)
(* what the run did ("send", "write").  A time stamp of second n is written *)
(* T<n>; the pattern of line 55 finds exactly the time stamps.              *)
(***************************************************************************)
TARGETS == << <<"M", "o", "b", "i", "l", "e">>, <<"P", "C">> >>

DigitChar(d) == CHOOSE c \in Digits : DigitVal(c) = d

\* str(n) of a natural number
RECURSIVE decimal(_)
decimal(n) ==
    IF n < 10 THEN <<DigitChar(n)>>
    ELSE decimal(n \div 10) \o <<DigitChar(n % 10)>>

\* re.findall of a mark followed by a group of one or more digits: the groups,
\* from left to right
RECURSIVE findall(_, _, _)
findall(mark, text, p) ==
    IF p > Len(text) THEN <<>>
    ELSE IF text[p] = mark /\ DigitRun(text, p + 1) # <<>>
    THEN <<DigitRun(text, p + 1)>>
           \o findall(mark, text, p + 1 + Len(DigitRun(text, p + 1)))
    ELSE findall(mark, text, p + 1)

\* list[-back] if len(list) >= back else default
FromEnd(list, back, default) ==
    IF Len(list) >= back THEN list[Len(list) + 1 - back] ELSE default

NA == <<"N", "/", "A">>

strftime(t) == <<"T">> \o decimal(t)

Markdown(text) == [kind |-> "markdown", text |-> text]

Header == <<"*", "g", "k", "*", "?", "\n">>

\* the two lines appended for a target whose revision has changed
UpdatedLines(name, revision, time) ==
    <<"\n", "!", "*">> \o name \o <<"*", "\n", "*", "v">> \o revision
      \o <<"*", "\n", "*">> \o time \o <<"*", "\n">>

\* lines for a target without a change that leave its revision out
UnchangedLinesBare(name, revision, time) ==
    <<"\n", "~", "*">> \o name \o <<"*", "\n", "*">> \o time \o <<"*", "\n">>

\* the two lines appended for a target whose revision has not changed
UnchangedLines(name, revision, time) ==
    <<"\n", "~", "*">> \o name \o <<"*", "\n", "*", "v">> \o revision
      \o <<"*", "\n", "*">> \o time \o <<"*", "\n">>

\* the revisions a target can answer with (0: none, or no "revision" key), and
\* a failed request, on which fetch_json raises
Revisions == {0, 7, 12}

Answers ==
    { [raised |-> FALSE, revision |-> n] : n \in Revisions }
      \cup { [raised |-> TRUE, revision |-> 0] }

\* messages and update_detected as check_update has them after its loop
RECURSIVE Compose(_, _, _, _, _, _)
Compose(k, answers, last_revisions, last_update_times, update_time, acc) ==
    IF k > Len(TARGETS) THEN acc
    ELSE LET latest_revision == answers[k].revision
         IN  IF latest_revision # 0 /\ decimal(latest_revision) # last_revisions[k]
             THEN Compose(k + 1, answers, last_revisions, last_update_times, update_time,
                          [messages |-> acc.messages
                                         \o UpdatedLines(TARGETS[k],
                                                         decimal(latest_revision),
                                                         update_time),
                           update_detected |-> TRUE])
             ELSE Compose(k + 1, answers, last_revisions, last_update_times, update_time,
                          [acc EXCEPT !.messages =
                               @ \o UnchangedLines(TARGETS[k], last_revisions[k],
                                                   last_update_times[k])])

check_update(f, answers, t) ==
    LET text == IF f = NoFile THEN <<>> ELSE f.text
        last_revision_list == findall("v", text, 1)
        last_revisions == <<FromEnd(last_revision_list, 2, decimal(0)),
                            FromEnd(last_revision_list, 1, decimal(0))>>
        last_update_time_list == findall("T", text, 1)
        last_update_times ==
            << IF Len(last_update_time_list) >= 2
               THEN <<"T">> \o FromEnd(last_update_time_list, 2, <<>>) ELSE NA,
               IF Len(last_update_time_list) >= 1
               THEN <<"T">> \o FromEnd(last_update_time_list, 1, <<>>) ELSE NA >>
    IN  Compose(1, answers, last_revisions, last_update_times, strftime(t),
                [messages |-> Header, update_detected |-> FALSE])

InitRevisions ==
    /\ state = <<>>
    /\ loaded = FALSE
    /\ file = NoFile
    /\ now = 1
    /\ batch = <<>>
    /\ notifications = <<>>
    /\ repeated = FALSE
    /\ revived = {}
    /\ absences = [id \in Ids |-> 0]
    /\ prevAbsences = [id \in Ids |-> 0]
    /\ deletions = [id \in Ids |-> 0]
    /\ seen = [id \in Ids |-> Unseen]
    /\ shadow = <<>>
    /\ runs = <<>>
    /\ store = NoFile
    /\ bases = <<>>
    /\ raw = <<>>
    /\ entry = "gkmas"
    /\ pc = Idle
    /\ log = <<>>
    /\ exit = Running

\* one run of check_update; fetch_json raises out of it when a request fails
GkmasCheckUpdate ==
    \E answers \in [1..Len(TARGETS) -> Answers] :
      /\ raw' = answers
      /\ repeated' = ( /\ exit = 0
                       /\ \E i \in 1..Len(log) : log[i].op = "write"
                       /\ answers = raw )
      /\ IF \E k \in 1..Len(TARGETS) : answers[k].raised
         THEN /\ log' = <<>>
              /\ exit' = 1
              /\ store' = store
         ELSE LET res == check_update(store, answers, now) IN
              /\ exit' = 0
              /\ IF res.update_detected
                 THEN /\ log' = <<Event("send", 0, res.messages, TRUE),
                                  Event("write", 0, res.messages, TRUE)>>
                      /\ store' = Markdown(res.messages)
                 ELSE /\ log' = <<>>
                      /\ store' = store
      /\ UNCHANGED <<state, loaded, file, now, batch, notifications, revived,
                     absences, prevAbsences, deletions, seen, shadow, bases, entry,
                     pc, runs>>

NextRevisions ==
    \/ GkmasCheckUpdate
    \/ Tick

SpecRevisions == InitRevisions /\ [][NextRevisions]_vars

\* C36: a run of check_update that follows a run which detected an update and
\* wrote the notification file, both targets answering with the revisions they
\* answered with in that run, detects no update: it sends nothing and leaves the
\* notification file as it is.
C36_Idempotent ==
    [][ ( /\ exit = 0
          /\ \E i \in 1..Len(log) : log[i].op = "write"
          /\ raw' = raw
          /\ now' = now )
        => /\ store' = store
           /\ log' = <<>>
           /\ exit' = 0 ]_vars

\* a run has followed, with the same revisions, a run in which only PC had
\* changed: nothing was sent, and the file is the notification of that run
C36_Witness ==
    /\ repeated
    /\ exit = 0
    /\ log = <<>>
    /\ raw[1].revision = 7 /\ raw[2].revision = 12
    /\ \E time1, time2 \in {NA, strftime(1), strftime(2)} :
          store = Markdown(Header \o UnchangedLines(TARGETS[1], decimal(7), time1)
                                  \o UpdatedLines(TARGETS[2], decimal(12), time2))

====
